---- MODULE Spec2Model ----
(***************************************************************************)
(* Model of app.py, the Streamlit ETF income planner.                      *)
(*                                                                         *)
(* Number representation.  The program computes with binary floating       *)
(* point; the model computes the same expressions in exact decimal         *)
(* arithmetic on scaled integers:                                          *)
(*   rates and yields   basis points (0.0838 is 838, 0.12 is 1200)         *)
(*   weights            whole percents (0.5 is 50)                         *)
(*   money returned     cents                                              *)
(*   average yield      hundredths of a percent (6.44 is 644)              *)
(* Intermediate products exceed 32 bits, so they are carried as sequences  *)
(* of base-10000 digits, least significant first.  The one place where the *)
(* floating point rounding error decides a branch (the weight tolerance at *)
(* a total of exactly 99 or 101 percent) is modelled as a choice between   *)
(* both outcomes.                                                          *)
(***************************************************************************)
EXTENDS Integers, Sequences, FiniteSets, TLC

VARIABLES
    dev_code,        \* sidebar text input
    investment,      \* number input, whole dollars
    income,          \* number input, whole dollars
    selected_etfs,   \* multiselect value, a sequence of tickers
    state,           \* selectbox value
    sliders,         \* slider values in percent, one per selected ETF
    button,          \* TRUE in the run triggered by a click on Calculate Income
    used_ips,        \* st.session_state.used_ips
    is_developer,    \* script global of the last run
    has_used_trial,  \* script global of the last run
    etf_weights,     \* the weight map: a sequence of [etf, w] with distinct etf
    total_weight,    \* percent
    calls,           \* the functions called, in call order
    message,         \* the warning shown by the last run
    summary,         \* what simulate_income_planner returned
    schedule,        \* what generate_distribution_schedule returned
    perf,            \* what show_portfolio_performance rendered
    pressed_before,  \* Calculate Income has been clicked in this session
    cache,           \* lru_cache of get_federal_tax_rate: income -> rate
    fed_tax,         \* what get_federal_tax_rate returned last
    pc               \* "fresh" before the first script run, then "shown"

vars == <<dev_code, investment, income, selected_etfs, state, sliders, button,
          used_ips, is_developer, has_used_trial, etf_weights, total_weight,
          calls, message, summary, schedule, perf, pressed_before, cache, fed_tax,
          pc>>

-----------------------------------------------------------------------------
(* Static ETF data, app.py lines 48-67 *)

etf_yields ==
    [JEPI |-> 838, SPYD |-> 450, SCHD |-> 350, VYM |-> 320,
     QYLD |-> 1150, RYLD |-> 1200, BND |-> 400, PFF |-> 650]

\* list(etf_yields): the options of the multiselect, in dict order
EtfOptions == <<"JEPI", "SPYD", "SCHD", "VYM", "QYLD", "RYLD", "BND", "PFF">>

June30 == <<"2", "0", "2", "4", "-", "0", "6", "-", "3", "0">>

etf_distribution_schedules ==
    [JEPI |-> [frequency |-> "monthly",   next_pay_date |-> June30],
     SPYD |-> [frequency |-> "quarterly", next_pay_date |-> June30],
     SCHD |-> [frequency |-> "quarterly", next_pay_date |-> June30],
     VYM  |-> [frequency |-> "quarterly", next_pay_date |-> June30],
     QYLD |-> [frequency |-> "monthly",   next_pay_date |-> June30],
     RYLD |-> [frequency |-> "monthly",   next_pay_date |-> June30],
     BND  |-> [frequency |-> "monthly",   next_pay_date |-> June30],
     PFF  |-> [frequency |-> "monthly",   next_pay_date |-> June30]]

state_tax_rates ==
    "Massachusetts" :> 500 @@ "California" :> 930 @@ "New York" :> 640 @@
    "Texas" :> 0 @@ "Florida" :> 0 @@ "Illinois" :> 495 @@ "Washington" :> 0 @@
    "New Jersey" :> 637 @@ "Pennsylvania" :> 307 @@ "Ohio" :> 399

\* list(state_tax_rates)
StateOptions == <<"Massachusetts", "California", "New York", "Texas", "Florida",
                  "Illinois", "Washington", "New Jersey", "Pennsylvania", "Ohio">>

-----------------------------------------------------------------------------
(* get_federal_tax_rate, app.py lines 70-77 *)

brackets ==
    <<[limit |-> 11600, rate |-> 1000], [limit |-> 47150, rate |-> 1200],
      [limit |-> 100525, rate |-> 2200], [limit |-> 191950, rate |-> 2400],
      [limit |-> 243725, rate |-> 3200], [limit |-> 609350, rate |-> 3500]>>

TopRate == 3700

\* variant: a threshold itself falls into the next bracket
RECURSIVE ScanBracketsStrict(_, _)
ScanBracketsStrict(inc, i) ==
    IF i > Len(brackets) THEN TopRate
    ELSE IF inc < brackets[i].limit THEN brackets[i].rate
    ELSE ScanBracketsStrict(inc, i + 1)

RECURSIVE ScanBrackets(_, _)
ScanBrackets(inc, i) ==
    IF i > Len(brackets) THEN TopRate
    ELSE IF inc <= brackets[i].limit THEN brackets[i].rate
    ELSE ScanBrackets(inc, i + 1)

\* the undecorated function body
FederalRateBody(inc) == ScanBrackets(inc, 1)

\* the lru_cache wrapper around it; c is the cache of the function object
\* in scope: a hit returns the stored value, a miss computes and stores it
get_federal_tax_rate(c, inc) ==
    IF inc \in DOMAIN c THEN c[inc] ELSE FederalRateBody(inc)

CacheAfter(c, inc) ==
    IF inc \in DOMAIN c THEN c
    ELSE [k \in DOMAIN c \cup {inc} |->
             IF k = inc THEN FederalRateBody(inc) ELSE c[k]]

-----------------------------------------------------------------------------
(* Exact arithmetic on naturals too wide for a machine integer: sequences  *)
(* of base-10000 digits, least significant first.                          *)

RECURSIVE BigOfNat(_)
BigOfNat(n) ==
    IF n < 10000 THEN <<n>> ELSE <<n % 10000>> \o BigOfNat(n \div 10000)

RECURSIVE BigToNat(_)
BigToNat(a) ==
    IF a = <<>> THEN 0 ELSE Head(a) + 10000 * BigToNat(Tail(a))

RECURSIVE BigAddC(_, _, _)
BigAddC(a, b, c) ==
    IF a = <<>> /\ b = <<>> THEN (IF c = 0 THEN <<>> ELSE <<c>>)
    ELSE LET x == IF a = <<>> THEN 0 ELSE Head(a)
             y == IF b = <<>> THEN 0 ELSE Head(b)
             t == x + y + c
         IN  <<t % 10000>> \o
             BigAddC(IF a = <<>> THEN a ELSE Tail(a),
                     IF b = <<>> THEN b ELSE Tail(b), t \div 10000)

BigAdd(a, b) == BigAddC(a, b, 0)

\* a - b for a >= b
RECURSIVE BigSubB(_, _, _)
BigSubB(a, b, w) ==
    IF a = <<>> THEN <<>>
    ELSE LET y == IF b = <<>> THEN 0 ELSE Head(b)
             t == Head(a) - y - w
         IN  <<IF t < 0 THEN t + 10000 ELSE t>> \o
             BigSubB(Tail(a), IF b = <<>> THEN b ELSE Tail(b),
                     IF t < 0 THEN 1 ELSE 0)

BigSub(a, b) == BigSubB(a, b, 0)

\* a * m for a digit-sized m (0 <= m < 10000)
RECURSIVE BigMulC(_, _, _)
BigMulC(a, m, c) ==
    IF a = <<>> THEN (IF c = 0 THEN <<>> ELSE BigOfNat(c))
    ELSE LET t == Head(a) * m + c
         IN  <<t % 10000>> \o BigMulC(Tail(a), m, t \div 10000)

\* a * n for 0 <= n < 10^8
BigMul(a, n) ==
    BigAdd(<<0>> \o BigMulC(a, n \div 10000, 0), BigMulC(a, n % 10000, 0))

\* quotient and remainder of a by a small d
RECURSIVE BigDivMod(_, _)
BigDivMod(a, d) ==
    IF a = <<>> THEN [q |-> <<>>, r |-> 0]
    ELSE LET hi == BigDivMod(Tail(a), d)
             t  == hi.r * 10000 + Head(a)
         IN  [q |-> <<t \div d>> \o hi.q, r |-> t % d]

\* a divided by the product of divs, keeping the whole remainder
RECURSIVE BigDivSeq(_, _, _, _)
BigDivSeq(a, divs, rem, scale) ==
    IF divs = <<>> THEN [q |-> a, r |-> rem, d |-> scale]
    ELSE LET dm == BigDivMod(a, Head(divs))
         IN  BigDivSeq(dm.q, Tail(divs), rem + scale * dm.r, scale * Head(divs))

\* Python's round(): a / (product of divs) to the nearest integer, ties to
\* the even one.  The product of divs is even.
RoundHalfEven(a, divs) ==
    LET x == BigDivSeq(a, divs, 0, 1)
        q == BigToNat(x.q)
        h == x.d \div 2
    IN  IF x.r > h \/ (x.r = h /\ q % 2 = 1) THEN q + 1 ELSE q

\* Python's int() of a non-negative value a / d: truncation
Truncate(a, d) == a \div d

-----------------------------------------------------------------------------
(* simulate_income_planner, app.py lines 103-124 *)

Known(ws) == \A i \in 1..Len(ws) : ws[i].etf \in DOMAIN etf_yields

\* variant: the yields are summed without their weights
RECURSIVE YieldSumUnweighted(_)
YieldSumUnweighted(ws) ==
    IF ws = <<>> THEN 0
    ELSE etf_yields[Head(ws).etf] * 100 + YieldSumUnweighted(Tail(ws))

\* sum(etf_yields[etf] * w for etf, w in etf_weights.items()), in millionths
RECURSIVE YieldSum(_)
YieldSum(ws) ==
    IF ws = <<>> THEN 0
    ELSE etf_yields[Head(ws).etf] * Head(ws).w + YieldSum(Tail(ws))

DefaultStateRate == 500

\* variant: a state missing from the table is not taxed
StateRateNoDefault(st) ==
    IF st \in DOMAIN state_tax_rates THEN state_tax_rates[st] ELSE 0

\* state_tax_rates.get(state, 0.05)
StateRate(st) ==
    IF st \in DOMAIN state_tax_rates THEN state_tax_rates[st]
    ELSE DefaultStateRate

\* f"{int(rate * 100)}%"
PercentString(rate) == ToString(Truncate(rate, 100)) \o "%"

\* the lines after the empty-map test, for a map of known ETFs
SummaryOf(c, inv, ws, st, inc) ==
    LET yield_avg  == YieldSum(ws)
        annual     == BigMul(BigOfNat(inv), yield_avg)
        fed        == get_federal_tax_rate(c, inc)
        state_tax  == StateRate(st)
        total_tax  == BigMul(annual, fed + state_tax)
        net_annual == BigSub(<<0>> \o annual, total_tax)
    IN  [status        |-> "ok",
         avg_yield     |-> RoundHalfEven(BigOfNat(yield_avg), <<100>>),
         gross_monthly |-> RoundHalfEven(annual, <<10000, 12>>),
         gross_yearly  |-> RoundHalfEven(annual, <<10000>>),
         fed_rate      |-> PercentString(fed),
         state_rate    |-> PercentString(state_tax),
         net_monthly   |-> RoundHalfEven(net_annual, <<10000, 10000, 12>>),
         net_yearly    |-> RoundHalfEven(net_annual, <<10000, 10000>>)]

simulate_income_planner(c, inv, ws, st, inc) ==
    IF ws = <<>> THEN [status |-> "empty"]
    ELSE IF ~Known(ws) THEN [status |-> "KeyError"]
    ELSE SummaryOf(c, inv, ws, st, inc)

\* get_federal_tax_rate is reached only past the empty-map test and the sum
SimulateCallsFederal(ws) == ws # <<>> /\ Known(ws)

-----------------------------------------------------------------------------
(* Calendar arithmetic used by generate_distribution_schedule *)

Digit(c) ==
    CASE c = "0" -> 0 [] c = "1" -> 1 [] c = "2" -> 2 [] c = "3" -> 3
      [] c = "4" -> 4 [] c = "5" -> 5 [] c = "6" -> 6 [] c = "7" -> 7
      [] c = "8" -> 8 [] c = "9" -> 9

\* datetime.strptime(s, "%Y-%m-%d")
Strptime(s) ==
    [year  |-> Digit(s[1]) * 1000 + Digit(s[2]) * 100 + Digit(s[3]) * 10 + Digit(s[4]),
     month |-> Digit(s[6]) * 10 + Digit(s[7]),
     day   |-> Digit(s[9]) * 10 + Digit(s[10])]

\* calendar.isleap
IsLeap(y) == y % 4 = 0 /\ (y % 100 # 0 \/ y % 400 = 0)

\* calendar.monthrange(y, m)[1]
MonthRange(y, m) ==
    <<31, 28, 31, 30, 31, 30, 31, 31, 30, 31, 30, 31>>[m]
        + (IF m = 2 /\ IsLeap(y) THEN 1 ELSE 0)

\* date + relativedelta(months=n): the month carries into the year and the
\* day is clipped to the length of the target month
AddMonths(d, n) ==
    LET t == d.month + n
        y == d.year + ((t - 1) \div 12)
        m == ((t - 1) % 12) + 1
    IN  [year |-> y, month |-> m,
         day |-> IF d.day > MonthRange(y, m) THEN MonthRange(y, m) ELSE d.day]

\* variant: the day of the shifted date is kept
FinalDateKeepDay(date) == date

\* datetime(date.year, date.month, calendar.monthrange(...)[1])
FinalDate(date) ==
    [year |-> date.year, month |-> date.month,
     day |-> MonthRange(date.year, date.month)]

-----------------------------------------------------------------------------
(* generate_distribution_schedule, app.py lines 80-100 *)

Periods(freq) == IF freq = "monthly" THEN 12 ELSE 4

Step(freq) == IF freq = "monthly" THEN 1 ELSE 3

\* the rows one ETF of the map contributes (the body of the outer loop)
EtfRows(inv, e, w) ==
    LET sched     == etf_distribution_schedules[e]
        amount    == BigMul(BigOfNat(inv * w), etf_yields[e])
        next_date == Strptime(sched.next_pay_date)
        periods   == Periods(sched.frequency)
        step      == Step(sched.frequency)
        dist      == RoundHalfEven(amount, <<10000, periods>>)
    IN  [k \in 1..periods |->
            [etf |-> e,
             pay_date |-> FinalDate(AddMonths(next_date, step * (k - 1))),
             amount |-> dist]]

\* variant: a ticker missing from a table is skipped
RECURSIVE BuildRowsSkipUnknown(_, _, _)
BuildRowsSkipUnknown(inv, ws, rows) ==
    IF ws = <<>> THEN [status |-> "ok", rows |-> rows]
    ELSE IF Head(ws).etf \notin DOMAIN etf_yields
            \/ Head(ws).etf \notin DOMAIN etf_distribution_schedules
         THEN BuildRowsSkipUnknown(inv, Tail(ws), rows)
         ELSE BuildRowsSkipUnknown(inv, Tail(ws),
                        rows \o EtfRows(inv, Head(ws).etf, Head(ws).w))

\* the outer loop: a ticker missing from a table raises KeyError, and the
\* rows gathered so far are lost with the frame
RECURSIVE BuildRows(_, _, _)
BuildRows(inv, ws, rows) ==
    IF ws = <<>> THEN [status |-> "ok", rows |-> rows]
    ELSE IF Head(ws).etf \notin DOMAIN etf_yields
            \/ Head(ws).etf \notin DOMAIN etf_distribution_schedules
         THEN [status |-> "KeyError", rows |-> <<>>]
         ELSE BuildRows(inv, Tail(ws),
                        rows \o EtfRows(inv, Head(ws).etf, Head(ws).w))

DateKey(d) == d.year * 10000 + d.month * 100 + d.day

\* insert r behind every row that is not later than it
RECURSIVE InsertRow(_, _)
InsertRow(sorted, r) ==
    IF sorted = <<>> THEN <<r>>
    ELSE IF DateKey(Head(sorted).pay_date) <= DateKey(r.pay_date)
         THEN <<Head(sorted)>> \o InsertRow(Tail(sorted), r)
         ELSE <<r>> \o sorted

RECURSIVE SortFrom(_, _)
SortFrom(rows, acc) ==
    IF rows = <<>> THEN acc
    ELSE SortFrom(Tail(rows), InsertRow(acc, Head(rows)))

\* variant: the frame is returned in insertion order
Unsorted(rows) == rows

\* DataFrame.sort_values('Pay Date'); rows of one date keep their order here,
\* which pandas does not promise and no formula below relies on
SortByPayDate(rows) == SortFrom(rows, <<>>)

generate_distribution_schedule(inv, ws) ==
    IF ws = <<>> THEN [status |-> "ok", rows |-> <<>>]
    ELSE LET built == BuildRows(inv, ws, <<>>)
         IN  IF built.status = "ok"
             THEN [status |-> "ok", rows |-> SortByPayDate(built.rows)]
             ELSE built

-----------------------------------------------------------------------------
(* The three core functions called directly, with inputs from bounded sets *)

MaxMap == 2

Weights == {0, 50, 100}

Investments == {100000, 250000}

Incomes == {-5000, 0, 11600, 11601, 47150, 47151, 50000, 100525, 100526,
            191950, 191951, 243725, 243726, 609350, 609351, 1000000}

Jurisdictions == {StateOptions[i] : i \in 1..Len(StateOptions)} \cup {"Nowhere"}

\* "XYZ" is a ticker the reference tables do not hold
SimEtfs == {"JEPI", "SPYD", "XYZ"}

SchedEtfs == DOMAIN etf_yields \cup {"XYZ"}

\* weight maps of at most n entries over the tickers E: a dict, so no ticker
\* twice, in insertion order
WeightMaps(E, n) ==
    UNION {{m \in [1..k -> [etf : E, w : Weights]] :
                \A i, j \in 1..k : m[i].etf = m[j].etf => i = j} : k \in 0..n}

NoSummary == [status |-> "none"]

NoSchedule == [status |-> "none", rows |-> <<>>]

\* the widgets and the session are not part of a direct call
uiVars == <<dev_code, selected_etfs, sliders, button, used_ips, is_developer,
            has_used_trial, total_weight, message, perf, pressed_before, pc>>

UiIdle ==
    /\ dev_code = "" /\ selected_etfs = <<>> /\ sliders = <<>>
    /\ button = FALSE /\ used_ips = {} /\ is_developer = FALSE
    /\ has_used_trial = FALSE /\ total_weight = 0 /\ message = "none"
    /\ perf = "none" /\ pressed_before = FALSE /\ pc = "call"

InitSim ==
    /\ UiIdle
    /\ investment \in Investments
    /\ income \in Incomes
    /\ state \in Jurisdictions
    /\ etf_weights \in WeightMaps(SimEtfs, MaxMap)
    /\ calls = <<>> /\ summary = NoSummary /\ schedule = NoSchedule
    /\ cache = <<>> /\ fed_tax = 0

\* get_federal_tax_rate(income)
CallFederal ==
    /\ fed_tax' = get_federal_tax_rate(cache, income)
    /\ cache' = CacheAfter(cache, income)
    /\ calls' = <<"get_federal_tax_rate">>
    /\ UNCHANGED <<uiVars, investment, income, state, etf_weights, summary, schedule>>

\* simulate_income_planner(investment, etf_weights, state, income)
CallSimulate ==
    /\ summary' = simulate_income_planner(cache, investment, etf_weights, state, income)
    /\ IF SimulateCallsFederal(etf_weights)
       THEN /\ fed_tax' = get_federal_tax_rate(cache, income)
            /\ cache' = CacheAfter(cache, income)
            /\ calls' = <<"simulate_income_planner", "get_federal_tax_rate">>
       ELSE /\ UNCHANGED <<fed_tax, cache>>
            /\ calls' = <<"simulate_income_planner">>
    /\ UNCHANGED <<uiVars, investment, income, state, etf_weights, schedule>>

NextSim == CallFederal \/ CallSimulate

SpecSim == InitSim /\ [][NextSim]_vars

InitSched ==
    /\ UiIdle
    /\ investment \in Investments
    /\ income = 145000
    /\ state = StateOptions[1]
    /\ etf_weights \in WeightMaps(SchedEtfs, MaxMap)
    /\ calls = <<>> /\ summary = NoSummary /\ schedule = NoSchedule
    /\ cache = <<>> /\ fed_tax = 0

\* generate_distribution_schedule(investment, etf_weights)
CallSchedule ==
    /\ schedule' = generate_distribution_schedule(investment, etf_weights)
    /\ calls' = <<"generate_distribution_schedule">>
    /\ UNCHANGED <<uiVars, investment, income, state, etf_weights, summary,
                   cache, fed_tax>>

NextSched == CallSchedule

SpecSched == InitSched /\ [][NextSched]_vars

-----------------------------------------------------------------------------
(* The Streamlit session, app.py lines 25-45 and 147-189.  Streamlit runs  *)
(* the whole script on page load and again after every widget interaction; *)
(* st.button returns True only in the run its click triggered.  Each       *)
(* action below is one interaction followed by that run.  A slider without *)
(* a key is identified by its label and arguments, so a change of the      *)
(* number of selected ETFs, which changes the default, resets the sliders. *)

\* what get_client_ip returns: the address of the serving host, one value
ClientIp == "host"

DevCodes == {"", "letmein123"}

UiInvestments == {0, 250000}

UiIncomes == {50000, 145000}

UiStates == {StateOptions[1], StateOptions[4]}

SliderStops == {0, 99}

\* the sliders are moved only while at most this many ETFs are selected
MaxSliderEtfs == 1

SeqToSet(q) == {q[i] : i \in 1..Len(q)}

OptionIndex(e) == CHOOSE i \in 1..Len(EtfOptions) : EtfOptions[i] = e

\* int(100 / len(selected_etfs))
DefaultWeight(k) == 100 \div k

DefaultSliders(sel) == [e \in SeqToSet(sel) |-> DefaultWeight(Len(sel))]

\* lines 155-161: etf_weights[etf] = val / 100, in selection order
WeightsOf(sel, sl) == [i \in 1..Len(sel) |-> [etf |-> sel[i], w |-> sl[sel[i]]]]

RECURSIVE SumWeights(_)
SumWeights(ws) == IF ws = <<>> THEN 0 ELSE Head(ws).w + SumWeights(Tail(ws))

\* abs(total_weight - 1.0) <= 0.01 on binary floating point: a total of 100
\* percent passes and a total two or more percent off fails whatever the
\* rounding error of the sum is; at 99 and 101 percent the rounding error of
\* the particular summands decides
ToleranceOutcomes(total) ==
    IF total = 100 THEN {TRUE}
    ELSE IF total = 99 \/ total = 101 THEN {TRUE, FALSE}
    ELSE {FALSE}

\* variant: the investment is not looked at
InputsValidAnyInvestment(sel, inv, close) == sel # <<>> /\ close

\* line 171: selected_etfs and investment > 0 and abs(total_weight - 1.0) <= 0.01
InputsValid(sel, inv, close) == sel # <<>> /\ inv > 0 /\ close

\* line 170
Permitted(dev, used) == dev \/ ~used

DigitChar(n) == <<"0", "1", "2", "3", "4", "5", "6", "7", "8", "9">>[n + 1]

\* strftime('%Y-%m-%d')
Strftime(d) ==
    <<DigitChar(d.year \div 1000), DigitChar((d.year \div 100) % 10),
      DigitChar((d.year \div 10) % 10), DigitChar(d.year % 10), "-",
      DigitChar(d.month \div 10), DigitChar(d.month % 10), "-",
      DigitChar(d.day \div 10), DigitChar(d.day % 10)>>

\* line 179
WithDateStrings(sch) ==
    [status |-> sch.status,
     rows |-> [i \in 1..Len(sch.rows) |->
                  [etf |-> sch.rows[i].etf,
                   pay_date |-> Strftime(sch.rows[i].pay_date),
                   amount |-> sch.rows[i].amount]]]

\* lines 172-184, with the inputs valid.  get_federal_tax_rate is defined
\* anew by every run, so its cache starts empty.
Calculate(inv, ws, st, inc) ==
    /\ summary' = simulate_income_planner(<<>>, inv, ws, st, inc)
    /\ fed_tax' = get_federal_tax_rate(<<>>, inc)
    /\ cache' = CacheAfter(<<>>, inc)
    /\ schedule' = WithDateStrings(generate_distribution_schedule(inv, ws))
    /\ message' = IF schedule'.rows # <<>> THEN "none" ELSE "no distributions"
    /\ perf' \in {"chart", "no data"}
    /\ calls' = <<"simulate_income_planner", "get_federal_tax_rate",
                  "generate_distribution_schedule",
                  "show_portfolio_performance">>

NoCalculation(msg) ==
    /\ summary' = NoSummary /\ schedule' = NoSchedule /\ perf' = "none"
    /\ fed_tax' = 0 /\ cache' = <<>> /\ calls' = <<>>
    /\ message' = msg

\* one run of the script, lines 26-45 and 150-189, over the widget values
\* dc, inv, inc, sel, st, sl
ScriptRun(pressed, dc, inv, inc, sel, st, sl) ==
    LET dev   == dc = "letmein123"
        used  == ClientIp \in used_ips
        ws    == WeightsOf(sel, sl)
        total == SumWeights(ws)
    IN  /\ pc' = "shown"
        /\ dev_code' = dc /\ investment' = inv /\ income' = inc
        /\ selected_etfs' = sel /\ state' = st /\ sliders' = sl
        /\ button' = pressed
        /\ pressed_before' = (pressed_before \/ pressed)
        /\ is_developer' = dev
        /\ has_used_trial' = used
        /\ used_ips' = IF ~dev /\ ~used THEN used_ips \cup {ClientIp} ELSE used_ips
        /\ etf_weights' = ws
        /\ total_weight' = total
        /\ IF ~pressed THEN NoCalculation("none")
           ELSE IF ~Permitted(dev, used)
           THEN NoCalculation("used your free simulation")
           ELSE \E close \in ToleranceOutcomes(total) :
                   IF InputsValid(sel, inv, close)
                   THEN Calculate(inv, ws, st, inc)
                   ELSE NoCalculation("weights must total 100%")

Init ==
    /\ pc = "fresh"
    /\ dev_code = "" /\ investment = 250000 /\ income = 145000
    /\ selected_etfs = <<"JEPI", "SPYD">> /\ state = StateOptions[1]
    /\ sliders = DefaultSliders(<<"JEPI", "SPYD">>)
    /\ button = FALSE /\ used_ips = {}
    /\ is_developer = FALSE /\ has_used_trial = FALSE
    /\ etf_weights = <<>> /\ total_weight = 0
    /\ calls = <<>> /\ message = "none" /\ summary = NoSummary
    /\ schedule = NoSchedule /\ perf = "none" /\ pressed_before = FALSE
    /\ cache = <<>> /\ fed_tax = 0

PageLoad ==
    /\ pc = "fresh"
    /\ ScriptRun(FALSE, dev_code, investment, income, selected_etfs, state, sliders)

EnterDevCode ==
    /\ pc = "shown"
    /\ \E c \in DevCodes \ {dev_code} :
          ScriptRun(FALSE, c, investment, income, selected_etfs, state, sliders)

SetInvestment ==
    /\ pc = "shown"
    /\ \E v \in UiInvestments \ {investment} :
          ScriptRun(FALSE, dev_code, v, income, selected_etfs, state, sliders)

SetIncome ==
    /\ pc = "shown"
    /\ \E v \in UiIncomes \ {income} :
          ScriptRun(FALSE, dev_code, investment, v, selected_etfs, state, sliders)

SelectState ==
    /\ pc = "shown"
    /\ \E v \in UiStates \ {state} :
          ScriptRun(FALSE, dev_code, investment, income, selected_etfs, v, sliders)

\* the multiselect appends the picked option; options are picked in the
\* order of the list
SelectEtf ==
    /\ pc = "shown"
    /\ \E e \in SeqToSet(EtfOptions) \ SeqToSet(selected_etfs) :
          /\ \A x \in SeqToSet(selected_etfs) : OptionIndex(x) < OptionIndex(e)
          /\ LET sel == Append(selected_etfs, e)
             IN  ScriptRun(FALSE, dev_code, investment, income, sel, state,
                           DefaultSliders(sel))

DeselectEtf ==
    /\ pc = "shown"
    /\ \E e \in SeqToSet(selected_etfs) :
          LET sel == SelectSeq(selected_etfs, LAMBDA x : x # e)
          IN  ScriptRun(FALSE, dev_code, investment, income, sel, state,
                        DefaultSliders(sel))

MoveSlider ==
    /\ pc = "shown"
    /\ Len(selected_etfs) <= MaxSliderEtfs
    /\ \E e \in SeqToSet(selected_etfs) : \E v \in SliderStops \ {sliders[e]} :
          ScriptRun(FALSE, dev_code, investment, income, selected_etfs, state,
                    [sliders EXCEPT ![e] = v])

PressCalculate ==
    /\ pc = "shown"
    /\ ScriptRun(TRUE, dev_code, investment, income, selected_etfs, state, sliders)

Next ==
    \/ PageLoad
    \/ EnterDevCode
    \/ SetInvestment
    \/ SetIncome
    \/ SelectState
    \/ SelectEtf
    \/ DeselectEtf
    \/ MoveSlider
    \/ PressCalculate

Spec == Init /\ [][Next]_vars

-----------------------------------------------------------------------------
(* Properties of the core functions *)

Called(f) == \E i \in 1..Len(calls) : calls[i] = f

HalfHalf == <<[etf |-> "JEPI", w |-> 50], [etf |-> "SPYD", w |-> 50]>>

Scenario ==
    /\ Called("simulate_income_planner")
    /\ investment = 100000 /\ etf_weights = HalfHalf
    /\ state = "Texas" /\ income = 50000

\* C1 as stated: the scenario (100000, JEPI and SPYD at one half each, Texas,
\* income 50000) yields 6.44%, 6440.00 gross, federal 12%, state 0%,
\* 5667.20 net a year and 472.27 net a month.
C1_ScenarioAsStated ==
    Scenario =>
        /\ summary.status = "ok"
        /\ summary.avg_yield = 644 /\ summary.gross_yearly = 644000
        /\ summary.fed_rate = "12%" /\ summary.state_rate = "0%"
        /\ summary.net_yearly = 566720 /\ summary.net_monthly = 47227

\* C1 amended: the same scenario yields 6.44%, 6440.00 gross, federal 22%
\* (50000 lies above 47150), state 0%, 5023.20 net a year and 418.60 net a
\* month.
C1_Scenario ==
    Scenario =>
        /\ summary.status = "ok"
        /\ summary.avg_yield = 644 /\ summary.gross_yearly = 644000
        /\ summary.fed_rate = "22%" /\ summary.state_rate = "0%"
        /\ summary.net_yearly = 502320 /\ summary.net_monthly = 41860

C1_Witness == Scenario /\ summary.status = "ok" /\ fed_tax = 2200

ClaimedLimits == <<11600, 47150, 100525, 191950, 243725, 609350>>

\* C2: the federal rate returned for an income is the rate paired with the
\* lowest threshold of 11600/47150/100525/191950/243725/609350 that is >= the
\* income, and 0.37 above 609350; it is 0.10 at 11600, 0.12 at 11601, 0.37
\* at 1000000, and 0.10 for every income at or below 11600, negative ones
\* included.
C2_FederalRate ==
    Called("get_federal_tax_rate") =>
        LET S == {i \in 1..Len(ClaimedLimits) : ClaimedLimits[i] >= income}
            first == CHOOSE i \in S : \A j \in S : i <= j
        IN  /\ [i \in 1..Len(brackets) |-> brackets[i].limit] = ClaimedLimits
            /\ IF S = {} THEN income > 609350 /\ fed_tax = 3700
               ELSE fed_tax = brackets[first].rate
            /\ (income = 11600 => fed_tax = 1000)
            /\ (income = 11601 => fed_tax = 1200)
            /\ (income = 1000000 => fed_tax = 3700)
            /\ (income <= 11600 => fed_tax = 1000)

C2_Witness ==
    /\ calls = <<"get_federal_tax_rate">> /\ income = 11600
    /\ fed_tax = 1000 /\ income \in DOMAIN cache

\* the whole percent nearest to a rate in basis points
NearestPercent(rate) ==
    LET q == rate \div 100
        r == rate % 100
    IN  IF r > 50 \/ (r = 50 /\ q % 2 = 1) THEN q + 1 ELSE q

\* C6: the summary's federal and state rate fields show the applied rate
\* rounded to the nearest whole percent.
C6_NearestWholePercent ==
    summary.status = "ok" =>
        /\ summary.fed_rate = ToString(NearestPercent(fed_tax)) \o "%"
        /\ summary.state_rate =
               ToString(NearestPercent(
                   IF state \in DOMAIN state_tax_rates
                   THEN state_tax_rates[state] ELSE 500)) \o "%"

\* gross * (1 - fed - st) in cents, for rates in basis points
NetOf(gross, fed, st) ==
    RoundHalfEven(BigMul(gross, 10000 - fed - st), <<10000, 10000>>)

\* C7: simulate_income_planner does not fail on a jurisdiction missing from
\* the state table and applies 0.05 to it, net yearly income being
\* gross * (1 - federal rate - 0.05); a jurisdiction of the table gets its
\* configured rate.
C7_StateFallback ==
    (Called("simulate_income_planner") /\ etf_weights # <<>> /\ Known(etf_weights)) =>
        LET gross == BigMul(BigOfNat(investment), YieldSum(etf_weights))
        IN  /\ summary.status = "ok"
            /\ state \notin DOMAIN state_tax_rates =>
                   /\ summary.net_yearly = NetOf(gross, fed_tax, 500)
                   /\ summary.state_rate = "5%"
            /\ state \in DOMAIN state_tax_rates =>
                   summary.net_yearly = NetOf(gross, fed_tax, state_tax_rates[state])

C7_Witness ==
    /\ Called("simulate_income_planner") /\ state = "Nowhere"
    /\ summary.status = "ok" /\ summary.state_rate = "5%"
    /\ summary.net_yearly > 0

MonthIndex(d) == d.year * 12 + d.month - 1

ClaimedMonthLength(y, m) ==
    IF m \in {4, 6, 9, 11} THEN 30
    ELSE IF m # 2 THEN 31
    ELSE IF y % 4 = 0 /\ (y % 100 # 0 \/ y % 400 = 0) THEN 29 ELSE 28

RowsOf(e) == SelectSeq(schedule.rows, LAMBDA r : r.etf = e)

MapEtfs == {etf_weights[i].etf : i \in 1..Len(etf_weights)}

\* C3: every ETF of the map has exactly 12 events when monthly and 4 when
\* quarterly, the i-th of them on the last calendar day of the month i (or
\* 3*i) months after the month of its next_pay_date.
C3_EventsPerEtf ==
    (Called("generate_distribution_schedule") /\ schedule.status = "ok") =>
        \A e \in MapEtfs :
            LET sched  == etf_distribution_schedules[e]
                n      == IF sched.frequency = "monthly" THEN 12 ELSE 4
                gap    == IF sched.frequency = "monthly" THEN 1 ELSE 3
                anchor == Strptime(sched.next_pay_date)
                mine   == RowsOf(e)
            IN  /\ Len(mine) = n
                /\ \A i \in 0..(n - 1) :
                       LET d == mine[i + 1].pay_date
                       IN  /\ MonthIndex(d) = MonthIndex(anchor) + i * gap
                           /\ d.day = ClaimedMonthLength(d.year, d.month)

C3_Witness ==
    /\ Called("generate_distribution_schedule") /\ schedule.status = "ok"
    /\ Len(etf_weights) = 2
    /\ etf_distribution_schedules[etf_weights[1].etf].frequency = "quarterly"
    /\ etf_distribution_schedules[etf_weights[2].etf].frequency = "monthly"
    /\ \E i \in 1..Len(schedule.rows) :
           schedule.rows[i].pay_date = [year |-> 2025, month |-> 2, day |-> 28]

Occurrences(r, rows) == Cardinality({i \in 1..Len(rows) : rows[i] = r})

\* C4: for a non-empty map of known ETFs the returned sequence holds every
\* event generated for every ETF, none dropped and none duplicated, in
\* non-decreasing order of pay date.
C4_MergedAndSorted ==
    (Called("generate_distribution_schedule") /\ etf_weights # <<>>
        /\ Known(etf_weights)) =>
        LET generated == BuildRows(investment, etf_weights, <<>>).rows
            rows      == schedule.rows
        IN  /\ schedule.status = "ok"
            /\ Len(rows) = Len(generated)
            /\ \A k \in 1..Len(generated) :
                   Occurrences(generated[k], rows) = Occurrences(generated[k], generated)
            /\ \A i, j \in 1..Len(rows) :
                   i < j => DateKey(rows[i].pay_date) <= DateKey(rows[j].pay_date)

C4_Witness ==
    /\ Called("generate_distribution_schedule") /\ schedule.status = "ok"
    /\ Len(etf_weights) = 2 /\ Len(schedule.rows) = 16
    /\ etf_distribution_schedules[etf_weights[1].etf].frequency = "monthly"
    /\ schedule.rows[2].etf = etf_weights[2].etf

\* C5: a weight map holding a ticker that the reference tables do not hold,
\* at any position, makes generate_distribution_schedule end in an error and
\* return no rows: neither the rows of the known tickers nor those gathered
\* before the unknown one.
C5_UnknownEtfFails ==
    (Called("generate_distribution_schedule") /\ ~Known(etf_weights)) =>
        /\ schedule.status = "KeyError"
        /\ schedule.rows = <<>>

C5_Witness ==
    /\ Called("generate_distribution_schedule")
    /\ Len(etf_weights) = 2
    /\ etf_weights[1].etf = "JEPI" /\ etf_weights[1].w = 50
    /\ etf_weights[2].etf = "XYZ"
    /\ schedule.status = "KeyError"

-----------------------------------------------------------------------------
(* Properties of the session *)

CoreFunctions == {"simulate_income_planner", "generate_distribution_schedule",
                  "show_portfolio_performance"}

InputFails == selected_etfs = <<>> \/ investment <= 0 \/ total_weight \notin 99..101

\* C8: in every run the three functions are called only if the button was
\* pressed in that run, the selection is not empty, the investment is
\* positive and the weights total 100% within one percent; when a permitted
\* user presses the button and one of these input conditions fails, the
\* warning is shown and none of the three is called.
C8_CalculationGuard ==
    /\ \A f \in CoreFunctions :
          Called(f) => button /\ ~InputFails
    /\ (button /\ (is_developer \/ ~has_used_trial) /\ InputFails) =>
          /\ \A f \in CoreFunctions : ~Called(f)
          /\ message = "weights must total 100%"

C8_Witness ==
    /\ button /\ is_developer /\ investment = 0 /\ total_weight = 100
    /\ calls = <<>> /\ message = "weights must total 100%"

Refused == message = "used your free simulation"

\* C9: in a fresh session the first press of Calculate Income by a user
\* without the developer code is permitted and every later one is refused
\* with the 'used your free simulation' warning; a user with the developer
\* code is permitted on every press.
C9_OneFreeSimulation ==
    [][button' =>
          IF is_developer' THEN ~Refused'
          ELSE IF ~pressed_before THEN ~Refused'
          ELSE Refused']_vars

\* C10: with any non-empty selection, untouched default slider weights and a
\* positive investment, a permitted press of Calculate Income runs the
\* calculation and does not show the weights warning.
C10_DefaultsPassValidation ==
    (/\ button /\ (is_developer \/ ~has_used_trial)
     /\ selected_etfs # <<>> /\ investment > 0
     /\ \A e \in SeqToSet(selected_etfs) : sliders[e] = 100 \div Len(selected_etfs)) =>
        /\ Called("simulate_income_planner")
        /\ message # "weights must total 100%"

====
